---- MODULE Spec2Model ----
(***************************************************************************)
(* NodeNormalization.  Entity merge engine (specification Spec):           *)
(*   scripts/combine_normalized_databases.py  (DatabaseCombiner)           *)
(*   scripts/simple_combine.py                (simple_union_merge)         *)
(*   scripts/simple_explore_combined_data.py  (simple_union_merge)         *)
(* Confidence score on its own (ScoreSpec), the type-priority merge on     *)
(* ranked and unranked tags (TypeSpec), identifier mapping of              *)
(* scripts/id_mapping.py and unmerged_simulation_subset/                   *)
(* normalize_datasets.py (MappingSpec), build_compendia_records of         *)
(* scripts/id_mapping.py (CompendiaSpec), the batched normalization loop   *)
(* of scripts/id_mapping.py and scripts/batch_normalize.py (BatchSpec,     *)
(* BatchFairSpec) and the validators of                                    *)
(* scripts/validate_combined_data.py (ValidateSpec).  Each specification   *)
(* runs one program; the variables of the others stay at rest.             *)
(*                                                                         *)
(* A persisted record is a TLA+ record whose fields are the JSON keys that *)
(* are present ("id", "equivalent_identifiers", "type",                    *)
(* "source_databases").  Python lists are sequences, Python sets are sets. *)
(* Lists that the code shares between an input record and the working     *)
(* entity (NormalizedEntity keeps the record's own list objects, and       *)
(* dict.copy() is shallow) are written back to the input map whenever the  *)
(* code appends to them.                                                   *)
(***************************************************************************)
EXTENDS Integers, Sequences, FiniteSets, TLC

\* ---------------------------------------------------------------- bounds
MaxEquiv == 2
MaxTypes == 1

\* ------------------------------------------------------------ vocabulary
None == "None"

KeyOrder == <<"A:1", "B:2">>
Keys == {KeyOrder[i] : i \in 1..Len(KeyOrder)}
EqIds == {"A:1", "B:2", "C:3"}
TypePool == {"biolink:Gene", "biolink:NamedThing"}
RequiredFields == {"id", "equivalent_identifiers", "type"}

Range(s) == {s[i] : i \in 1..Len(s)}

NoDup(s) == \A i, j \in 1..Len(s) : i # j => s[i] # s[j]

SeqsUpTo(S, lo, hi) == UNION {[1..n -> S] : n \in lo..hi}

\* identifiers of a list of {identifier, label} entries, in order
IdsOf(equiv) == [i \in 1..Len(equiv) |-> equiv[i].identifier]

IdSet(equiv) == {equiv[i].identifier : i \in 1..Len(equiv)}

\* ---------------------------------------------------------- input records
Entry(i, lab) == [identifier |-> i, label |-> lab]

EquivLists(lab) ==
    {[i \in 1..Len(s) |-> Entry(s[i], lab)] : s \in {t \in SeqsUpTo(EqIds, 0, MaxEquiv) : NoDup(t)}}

TypeLists == {t \in SeqsUpTo(TypePool, 1, MaxTypes) : NoDup(t)}

\* the source_databases list save_combined_data wrote for an entity that an
\* earlier merge found on both sides
PersistedSources == {<<"PrimeKG", "SemMed">>}

\* a record as the normalization step writes it (no source_databases), or as
\* save_combined_data persisted it after an earlier merge (source_databases)
WellFormed(k, lab) ==
    LET fresh == {[id |-> [identifier |-> k, label |-> lab],
                   equivalent_identifiers |-> eq,
                   type |-> ty] : eq \in EquivLists(lab), ty \in TypeLists}
    IN  fresh \cup {("source_databases" :> src) @@ r : r \in fresh, src \in PersistedSources}

\* records that lack one of the required fields
Malformed(k, lab) ==
    LET full == [id |-> [identifier |-> k, label |-> lab],
                 equivalent_identifiers |-> <<Entry(k, lab)>>,
                 type |-> <<"biolink:Gene">>]
    IN  {[f \in RequiredFields \ {g} |-> full[f]] : g \in RequiredFields}

PlainRecord(k, lab) ==
    [id |-> [identifier |-> k, label |-> lab],
     equivalent_identifiers |-> <<Entry(k, lab)>>,
     type |-> <<"biolink:NamedThing">>]

\* the maps a side can hold: "A:1" absent or any record, "B:2" absent or plain
Maps(lab) ==
    LET a == {<<>>} \cup {("A:1" :> r) : r \in WellFormed("A:1", lab) \cup Malformed("A:1", lab)}
        b == {<<>>, ("B:2" :> PlainRecord("B:2", lab))}
    IN  {x @@ y : x \in a, y \in b}

\* ------------------------------------------------------------- helpers
Position(k) == CHOOSE i \in 1..Len(KeyOrder) : KeyOrder[i] = k

\* the keys a loop over M.items() finishes before the first key in bad raises
Completed(M, bad) == {k \in DOMAIN M : \A j \in bad : Position(k) < Position(j)}

\* the key at which a loop over the keys in bad (non-empty) raises
FirstBad(bad) == CHOOSE k \in bad : \A j \in bad : Position(k) <= Position(j)

\* iteration orders of a Python set of type tags
TypeOrders == {o \in [1..Cardinality(TypePool) -> TypePool] : Range(o) = TypePool}

\* list(set(...)): the elements of S, once each, in the set's iteration order
ListOfSet(S, ord) == LET In(t) == t \in S IN SelectSeq(ord, In)

\* mutants of ExtendEquiv: every right-hand entry is appended; the list is
\* replaced by the new entries; entries are compared whole, not by identifier
ExtendEquiv_noFilter(existing, incoming) == existing \o incoming

ExtendEquiv_onlyNew(existing, incoming) ==
    LET New(eq) == eq.identifier \notin IdSet(existing)
    IN  SelectSeq(incoming, New)

ExtendEquiv_byEntry(existing, incoming) ==
    LET New(eq) == eq \notin Range(existing)
    IN  existing \o SelectSeq(incoming, New)

\* existing_equiv is computed once; right-hand entries whose identifier is not
\* in it are appended in right-hand order
ExtendEquiv(existing, incoming) ==
    LET existing_equiv == IdSet(existing)
        New(eq) == eq.identifier \notin existing_equiv
    IN  existing \o SelectSeq(incoming, New)

\* ------------------------------------------- combine_normalized_databases
CanCreate(entity_data) == RequiredFields \subseteq DOMAIN entity_data

create_entity_from_normalized(entity_data, source_db) ==
    [identifier |-> entity_data.id.identifier,
     label |-> entity_data.id.label,
     equivalent_identifiers |-> entity_data.equivalent_identifiers,
     types |-> entity_data.type,
     source_databases |-> {source_db},
     confidence_score |-> None]

Raised(P) == [raised |-> TRUE, combined |-> <<>>, primekg |-> P]

\* the fields the collision branch of union_merge / intersection_merge reads
\* from the right-hand record
CanFold(entity_data) == {"type", "equivalent_identifiers"} \subseteq DOMAIN entity_data

\* mutants of FoldInto: the right-hand source name is not recorded; the
\* right-hand types are not merged in
FoldInto_noSourceTag(existing, entity_data, ord) ==
    [existing EXCEPT
        !.types = ListOfSet(Range(@) \cup Range(entity_data.type), ord),
        !.equivalent_identifiers = ExtendEquiv(@, entity_data.equivalent_identifiers)]

FoldInto_leftTypes(existing, entity_data, ord) ==
    [existing EXCEPT
        !.source_databases = @ \cup {"SemMed"},
        !.equivalent_identifiers = ExtendEquiv(@, entity_data.equivalent_identifiers)]

\* the collision branch: existing is the entity built from the left record
FoldInto(existing, entity_data, ord) ==
    [existing EXCEPT
        !.source_databases = @ \cup {"SemMed"},
        !.types = ListOfSet(Range(@) \cup Range(entity_data.type), ord),
        !.equivalent_identifiers = ExtendEquiv(@, entity_data.equivalent_identifiers)]

\* the left map after the loop: the records of the keys in folded had their
\* equivalent_identifiers list appended to in place
WriteBack(P, S, folded) ==
    [k \in DOMAIN P |->
        IF k \in folded
        THEN [P[k] EXCEPT !.equivalent_identifiers =
                 ExtendEquiv(@, S[k].equivalent_identifiers)]
        ELSE P[k]]

\* mutant of union_merge: the else branch is missing, right-hand-only
\* identifiers are not added
union_merge_skipsNew(P, S, ord) ==
    LET bad1 == {k \in DOMAIN P : ~CanCreate(P[k])}
        bad2 == {k \in DOMAIN S \cap DOMAIN P : ~CanFold(S[k])}
        done == Completed(S, bad2) \cap DOMAIN P
    IN  IF bad1 # {} THEN Raised(P)
        ELSE IF bad2 # {} THEN Raised(WriteBack(P, S, done))
        ELSE [raised |-> FALSE,
              combined |->
                 [k \in DOMAIN P |->
                     IF k \in DOMAIN S
                     THEN FoldInto(create_entity_from_normalized(P[k], "PrimeKG"), S[k], ord)
                     ELSE create_entity_from_normalized(P[k], "PrimeKG")],
              primekg |-> WriteBack(P, S, done)]

union_merge(P, S, ord) ==
    LET bad1 == {k \in DOMAIN P : ~CanCreate(P[k])}
        bad2 == {k \in DOMAIN S : IF k \in DOMAIN P THEN ~CanFold(S[k]) ELSE ~CanCreate(S[k])}
        done == Completed(S, bad2) \cap DOMAIN P
    IN  IF bad1 # {} THEN Raised(P)
        ELSE IF bad2 # {} THEN Raised(WriteBack(P, S, done))
        ELSE [raised |-> FALSE,
              combined |->
                 [k \in DOMAIN P \cup DOMAIN S |->
                     IF k \in DOMAIN P /\ k \in DOMAIN S
                     THEN FoldInto(create_entity_from_normalized(P[k], "PrimeKG"), S[k], ord)
                     ELSE IF k \in DOMAIN P
                     THEN create_entity_from_normalized(P[k], "PrimeKG")
                     ELSE create_entity_from_normalized(S[k], "SemMed")],
              primekg |-> WriteBack(P, S, done)]

intersection_merge(P, S, ord) ==
    LET common_ids == DOMAIN P \cap DOMAIN S
        bad == {k \in common_ids : ~CanCreate(P[k]) \/ ~CanFold(S[k])}
        done == {k \in common_ids : \A j \in bad : Position(k) < Position(j)}
    IN  IF bad # {} THEN Raised(WriteBack(P, S, done))
        ELSE [raised |-> FALSE,
              combined |->
                 [k \in common_ids |->
                     FoldInto(create_entity_from_normalized(P[k], "PrimeKG"), S[k], ord)],
              primekg |-> WriteBack(P, S, done)]

\* scores and weights are counted in thousandths: 1.0 is 1000, 0.05 is 50
Min(a, b) == IF a <= b THEN a ELSE b

\* mutant of calculate_confidence: the bonus shrinks with every identifier
calculate_confidence_fewerIsBetter(entity, source_db, weight) ==
    LET base_confidence == weight
        equiv_bonus == Min(200, 200 - Len(entity.equivalent_identifiers) * 50)
        type_bonus == Min(100, Len(entity.types) * 10)
        source_bonus == IF source_db = "PrimeKG" THEN 100 ELSE 50
    IN  Min(1000, base_confidence + equiv_bonus + type_bonus + source_bonus)

calculate_confidence(entity, source_db, weight) ==
    LET base_confidence == weight
        equiv_bonus == Min(200, Len(entity.equivalent_identifiers) * 50)
        type_bonus == Min(100, Len(entity.types) * 10)
        source_bonus == IF source_db = "PrimeKG" THEN 100 ELSE 50
    IN  Min(1000, base_confidence + equiv_bonus + type_bonus + source_bonus)

Scored(entity_data, source_db, weight) ==
    LET entity == create_entity_from_normalized(entity_data, source_db)
    IN  [entity EXCEPT !.confidence_score = calculate_confidence(entity, source_db, weight)]

\* mutant of Replaces: the right-hand entity also wins a tie
Replaces_orTie(new_entity, existing) ==
    new_entity.confidence_score >= existing.confidence_score

\* the right-hand entity wins a collision only with a strictly higher score
Replaces(new_entity, existing) == new_entity.confidence_score > existing.confidence_score

confidence_based_merge(P, S, primekg_weight, ord) ==
    LET bad1 == {k \in DOMAIN P : ~CanCreate(P[k])}
        bad2 == {k \in DOMAIN S : ~CanCreate(S[k])}
        left(k) == Scored(P[k], "PrimeKG", primekg_weight)
        right(k) == Scored(S[k], "SemMed", 1000 - primekg_weight)
        kept == {k \in DOMAIN P \cap DOMAIN S :
                    CanCreate(P[k]) /\ CanCreate(S[k]) /\ ~Replaces(right(k), left(k))}
        done == Completed(S, bad2) \cap kept
    IN  IF bad1 # {} THEN Raised(P)
        ELSE IF bad2 # {} THEN Raised(WriteBack(P, S, done))
        ELSE [raised |-> FALSE,
              combined |->
                 [k \in DOMAIN P \cup DOMAIN S |->
                     IF k \in DOMAIN P /\ k \in DOMAIN S
                     THEN IF Replaces(right(k), left(k))
                          THEN [right(k) EXCEPT
                                   !.source_databases = left(k).source_databases \cup {"SemMed"}]
                          ELSE [left(k) EXCEPT
                                   !.source_databases = @ \cup {"SemMed"},
                                   !.types = ListOfSet(Range(@) \cup Range(right(k).types), ord),
                                   !.equivalent_identifiers =
                                       ExtendEquiv(@, right(k).equivalent_identifiers)]
                     ELSE IF k \in DOMAIN P THEN left(k) ELSE right(k)],
              primekg |-> WriteBack(P, S, done)]

type_hierarchy ==
    ("biolink:Gene" :> 10) @@ ("biolink:Protein" :> 9) @@ ("biolink:ChemicalEntity" :> 8)
    @@ ("biolink:AnatomicalEntity" :> 7) @@ ("biolink:Disease" :> 6)
    @@ ("biolink:OrganismTaxon" :> 5) @@ ("biolink:NamedThing" :> 1)

\* the characters of the type strings (str.startswith works on them)
Chars(t) ==
    CASE t = "biolink:Gene" -> <<"b","i","o","l","i","n","k",":","G","e","n","e">>
      [] t = "biolink:GeneFamily" ->
             <<"b","i","o","l","i","n","k",":","G","e","n","e","F","a","m","i","l","y">>
      [] t = "biolink:Protein" -> <<"b","i","o","l","i","n","k",":","P","r","o","t","e","i","n">>
      [] t = "biolink:ChemicalEntity" ->
             <<"b","i","o","l","i","n","k",":","C","h","e","m","i","c","a","l",
               "E","n","t","i","t","y">>
      [] t = "biolink:AnatomicalEntity" ->
             <<"b","i","o","l","i","n","k",":","A","n","a","t","o","m","i","c","a","l",
               "E","n","t","i","t","y">>
      [] t = "biolink:Disease" -> <<"b","i","o","l","i","n","k",":","D","i","s","e","a","s","e">>
      [] t = "biolink:OrganismTaxon" ->
             <<"b","i","o","l","i","n","k",":","O","r","g","a","n","i","s","m","T","a","x","o","n">>
      [] t = "biolink:NamedThing" ->
             <<"b","i","o","l","i","n","k",":","N","a","m","e","d","T","h","i","n","g">>
      [] t = "biolink:Cell" -> <<"b","i","o","l","i","n","k",":","C","e","l","l">>
      [] t = "Gene" -> <<"G","e","n","e">>

\* s.startswith(p) on character sequences
IsPrefix(p, s) == Len(p) <= Len(s) /\ SubSeq(s, 1, Len(p)) = p

\* entity_type.startswith(type_name)
StartsWith(entity_type, type_name) == IsPrefix(Chars(type_name), Chars(entity_type))

Max(S) == CHOOSE x \in S : \A y \in S : y <= x

get_type_priority(types) ==
    Max({0} \cup {type_hierarchy[n] : n \in {m \in DOMAIN type_hierarchy :
                                               \E i \in 1..Len(types) : StartsWith(types[i], m)}})

\* the priority is stored as the confidence score: 10 is 10.0, 10000 thousandths
Ranked(entity_data, source_db) ==
    LET entity == create_entity_from_normalized(entity_data, source_db)
    IN  [entity EXCEPT !.confidence_score = 1000 * get_type_priority(entity.types)]

\* mutant of BestOf: the first entity of the group, whatever its priority
BestOf_first(entities) == entities[1]

\* mutant of BestOf: the last entity with the largest key
BestOf_last(entities) ==
    LET i == CHOOSE i \in 1..Len(entities) :
                 /\ \A j \in 1..Len(entities) :
                        entities[j].confidence_score <= entities[i].confidence_score
                 /\ \A j \in (i + 1)..Len(entities) :
                        entities[j].confidence_score < entities[i].confidence_score
    IN  entities[i]

\* max(entities, key=...) returns the first entity with the largest key
BestOf(entities) ==
    LET i == CHOOSE i \in 1..Len(entities) :
                 /\ \A j \in 1..Len(entities) :
                        entities[j].confidence_score <= entities[i].confidence_score
                 /\ \A j \in 1..(i - 1) :
                        entities[j].confidence_score < entities[i].confidence_score
    IN  entities[i]

type_based_merge(P, S) ==
    LET bad == {k \in DOMAIN P : ~CanCreate(P[k])} \cup {k \in DOMAIN S : ~CanCreate(S[k])}
    IN  IF bad # {} THEN Raised(P)
        ELSE [raised |-> FALSE,
              combined |->
                 [k \in DOMAIN P \cup DOMAIN S |->
                     IF k \in DOMAIN P /\ k \in DOMAIN S
                     THEN LET entities == <<Ranked(P[k], "PrimeKG"), Ranked(S[k], "SemMed")>>
                          IN  [BestOf(entities) EXCEPT !.source_databases =
                                   UNION {entities[i].source_databases : i \in 1..Len(entities)}]
                     ELSE IF k \in DOMAIN P THEN Ranked(P[k], "PrimeKG")
                     ELSE Ranked(S[k], "SemMed")],
              primekg |-> P]

\* ------------------------------- simple_combine / simple_explore_combined_data
\* both copies of simple_union_merge; keep is TRUE for simple_combine.py, which
\* leaves a source_databases list the left record already carries in place
\* (the shallow copy then shares that list with the input record)
simple_merge(P, S, ord, keep) ==
    LET Shared(k) == keep /\ "source_databases" \in DOMAIN P[k]
        Start(k) == IF Shared(k) THEN P[k]
                    ELSE ("source_databases" :> <<"PrimeKG">>) @@ P[k]
        bad == {k \in DOMAIN S \cap DOMAIN P : ~CanFold(P[k]) \/ ~CanFold(S[k])}
        done == Completed(S, bad) \cap DOMAIN P
        tagged == done \cup (IF bad = {} THEN {} ELSE {FirstBad(bad)})
        left == [k \in DOMAIN P |->
                    LET r == IF k \in tagged /\ Shared(k)
                             THEN [P[k] EXCEPT !.source_databases = Append(@, "SemMed")]
                             ELSE P[k]
                    IN  IF k \in done
                        THEN [r EXCEPT !.equivalent_identifiers =
                                 ExtendEquiv(@, S[k].equivalent_identifiers)]
                        ELSE r]
    IN  IF bad # {} THEN Raised(left)
        ELSE [raised |-> FALSE,
              combined |->
                 [k \in DOMAIN P \cup DOMAIN S |->
                     IF k \in DOMAIN P /\ k \in DOMAIN S
                     THEN [Start(k) EXCEPT
                              !.source_databases = Append(@, "SemMed"),
                              !.type = ListOfSet(Range(@) \cup Range(S[k].type), ord),
                              !.equivalent_identifiers =
                                  ExtendEquiv(@, S[k].equivalent_identifiers)]
                     ELSE IF k \in DOMAIN P THEN Start(k)
                     ELSE ("source_databases" :> <<"SemMed">>) @@ S[k]],
              primekg |-> left]

simple_union_merge(P, S, ord) == simple_merge(P, S, ord, TRUE)

explore_simple_union_merge(P, S, ord) == simple_merge(P, S, ord, FALSE)

\* ------------------------------------------------------------ the program
VARIABLES
    primekg_data,   \* left input map (self.primekg_data / primekg_data)
    semmed_data,    \* right input map (self.semmed_data / semmed_data)
    same_object,    \* TRUE when both inputs are one and the same dict object
    pc,             \* "loaded", then "merged" or "raised" (KeyError)
    strategy,       \* the merge that ran
    combined,       \* the map the merge returned
    primekg_weight, \* args.primekg_weight of a confidence merge, in thousandths
    stats,          \* the dict generate_statistics returned
    scoring,        \* the last call of _calculate_confidence: arguments and score
    node_id,        \* a row of a nodes table: its identifier, ...
    node_type,      \* ... its node type ...
    node_source,    \* ... and its source tag, as read (strings are sequences of characters)
    curie,          \* what the mapping function returned for the row
    curies,         \* the list of CURIEs to normalize
    batch_size,     \* the size of a batch
    batch_start,    \* the loop variable i of range(0, len(curies), batch_size)
    results,        \* the dict the loop fills
    calls,          \* requests.post and time.sleep calls made so far, in order
    data,           \* the combined map the validation script loaded
    issues,         \* the issue list a validator returned
    report,         \* the dict generate_quality_report returned
    rows,           \* the rows build_compendia_records reads
    limit_per_type, \* its per-type limit
    row_index,      \* the number of rows its loop has consumed
    records,        \* the records it has written (out)
    counts,         \* rows classified, per node type
    included_per_type,  \* rows written out, per node type
    unmapped_examples   \* the examples of unmapped rows it keeps, per node type

vars == <<primekg_data, semmed_data, same_object, pc, strategy, combined, primekg_weight, stats,
          scoring, node_id, node_type, node_source, curie,
          curies, batch_size, batch_start, results, calls, data, issues, report,
          rows, limit_per_type, row_index, records, counts, included_per_type,
          unmapped_examples>>

\* the state of the merge scripts and of the identifier mapping
mergeVars == <<primekg_data, semmed_data, same_object, strategy, combined, primekg_weight,
               stats>>

mappingVars == <<node_id, node_type, node_source, curie>>

batchVars == <<curies, batch_size, batch_start, results, calls>>

validateVars == <<data, issues, report>>

compendiaVars == <<rows, limit_per_type, row_index, records, counts, included_per_type,
                   unmapped_examples>>

\* no merge script has run
MergeIdle ==
    /\ primekg_data = <<>>
    /\ semmed_data = <<>>
    /\ same_object = FALSE
    /\ strategy = None
    /\ combined = <<>>
    /\ primekg_weight = None
    /\ stats = <<>>

\* no row is being mapped
MappingIdle ==
    /\ node_id = <<>>
    /\ node_type = <<>>
    /\ node_source = <<>>
    /\ curie = <<>>

\* no list is being normalized
BatchIdle ==
    /\ curies = <<>>
    /\ batch_size = 0
    /\ batch_start = 0
    /\ results = <<>>
    /\ calls = <<>>

\* no combined map is being validated
ValidateIdle ==
    /\ data = <<>>
    /\ issues = <<>>
    /\ report = <<>>

\* no nodes table is being converted
CompendiaIdle ==
    /\ rows = <<>>
    /\ limit_per_type = <<>>
    /\ row_index = 0
    /\ records = <<>>
    /\ counts = <<>>
    /\ included_per_type = <<>>
    /\ unmapped_examples = <<>>

\* everything but the merge scripts, at rest
aside == <<scoring, mappingVars, batchVars, validateVars, compendiaVars>>

Aside == scoring = <<>> /\ MappingIdle /\ BatchIdle /\ ValidateIdle /\ CompendiaIdle

\* --primekg-weight is any float (type=float, no range check).  The default
\* 0.6, three weights between 0 and 1 and one above 1; for each of them the
\* double sums of _calculate_confidence compare exactly as the thousandths do
\* on every entity of the model; at 0.525 a left entity without equivalent
\* identifiers ties with a right entity that has two.
PrimekgWeights == {600, 400, 300, 525, 1500}

Strategies == {"union", "intersection", "confidence", "type"}

Init ==
    /\ primekg_data \in Maps("p")
    /\ \/ semmed_data \in Maps("s") /\ same_object = FALSE
       \/ semmed_data = primekg_data /\ same_object \in BOOLEAN
    /\ pc = "loaded"
    /\ strategy = None
    /\ combined = <<>>
    /\ primekg_weight = None
    /\ stats = <<>>
    /\ Aside

\* the call returns out, or raises; appends made through shared lists are
\* visible in the input maps afterwards
Return(name, out) ==
    /\ pc = "loaded"
    /\ pc' = IF out.raised THEN "raised" ELSE "merged"
    /\ strategy' = name
    /\ combined' = out.combined
    /\ primekg_data' = out.primekg
    /\ semmed_data' = IF same_object THEN out.primekg ELSE semmed_data
    /\ UNCHANGED <<same_object, stats, aside>>

\* the strategies other than "confidence" never read args.primekg_weight
Unweighted(name, out) == Return(name, out) /\ UNCHANGED primekg_weight

UnionMerge ==
    \E ord \in TypeOrders : Unweighted("union", union_merge(primekg_data, semmed_data, ord))

IntersectionMerge ==
    \E ord \in TypeOrders :
        Unweighted("intersection", intersection_merge(primekg_data, semmed_data, ord))

ConfidenceBasedMerge ==
    \E ord \in TypeOrders, w \in PrimekgWeights :
        /\ Return("confidence", confidence_based_merge(primekg_data, semmed_data, w, ord))
        /\ primekg_weight' = w

TypeBasedMerge == Unweighted("type", type_based_merge(primekg_data, semmed_data))

SimpleUnionMerge ==
    \E ord \in TypeOrders :
        Unweighted("simple_combine", simple_union_merge(primekg_data, semmed_data, ord))

ExploreSimpleUnionMerge ==
    \E ord \in TypeOrders :
        Unweighted("simple_explore", explore_simple_union_merge(primekg_data, semmed_data, ord))

\* mutant of Total: only the last key is counted
Total_lastKey(f, n) ==
    IF n = 0 THEN 0 ELSE (IF KeyOrder[n] \in DOMAIN f THEN f[KeyOrder[n]] ELSE 0)

\* the sum of f over the keys of its domain
RECURSIVE Total(_, _)
Total(f, n) ==
    IF n = 0 THEN 0
    ELSE Total(f, n - 1) + (IF KeyOrder[n] \in DOMAIN f THEN f[KeyOrder[n]] ELSE 0)

\* entity_type.split(":")[1] if ":" in entity_type else entity_type
base_type(entity_type) ==
    LET c == Chars(entity_type)
        colons == {i \in 1..Len(c) : c[i] = ":"}
        first == CHOOSE i \in colons : \A j \in colons : i <= j
        later == {i \in colons : i > first}
        stop == IF later = {} THEN Len(c) + 1
                ELSE CHOOSE i \in later : \A j \in later : i <= j
    IN  IF colons = {} THEN c ELSE SubSeq(c, first + 1, stop - 1)

\* the counters are dicts with the keys that were counted; the average is the
\* quotient of total_equiv_identifiers and len(combined_data), kept as the pair
generate_statistics(combined_data) ==
    LET keys == DOMAIN combined_data
        Occurs(k, t) == Cardinality({i \in 1..Len(combined_data[k].types) :
                                        combined_data[k].types[i] = t})
        OccursBase(k, b) == Cardinality({i \in 1..Len(combined_data[k].types) :
                                            base_type(combined_data[k].types[i]) = b})
        sources == UNION {combined_data[k].source_databases : k \in keys}
        types == UNION {Range(combined_data[k].types) : k \in keys}
    IN  [total_entities |-> Cardinality(keys),
         entities_by_source |->
             [src \in sources |->
                 Total([k \in keys |-> IF src \in combined_data[k].source_databases
                                        THEN 1 ELSE 0], Len(KeyOrder))],
         entities_by_type |->
             [t \in types |-> Total([k \in keys |-> Occurs(k, t)], Len(KeyOrder))],
         entities_with_multiple_sources |->
             Total([k \in keys |-> IF Cardinality(combined_data[k].source_databases) > 1
                                    THEN 1 ELSE 0], Len(KeyOrder)),
         average_equivalent_identifiers |->
             IF keys = {} THEN <<0, 1>>
             ELSE <<Total([k \in keys |-> Len(combined_data[k].equivalent_identifiers)],
                          Len(KeyOrder)),
                    Cardinality(keys)>>,
         type_distribution |->
             [b \in {base_type(t) : t \in types} |->
                 Total([k \in keys |-> OccursBase(k, b)], Len(KeyOrder))]]

\* main: the statistics of the map a strategy of DatabaseCombiner returned
GenerateStatistics ==
    /\ pc = "merged"
    /\ strategy \in Strategies
    /\ pc' = "statistics"
    /\ stats' = generate_statistics(combined)
    /\ UNCHANGED <<primekg_data, semmed_data, same_object, strategy, combined,
                   primekg_weight, aside>>

Next ==
    \/ UnionMerge
    \/ IntersectionMerge
    \/ ConfidenceBasedMerge
    \/ TypeBasedMerge
    \/ SimpleUnionMerge
    \/ ExploreSimpleUnionMerge
    \/ GenerateStatistics

Spec == Init /\ [][Next]_vars

\* ------------------------------------------- _calculate_confidence on its own
MaxScoredEquiv == 5
MaxScoredTypes == 11

\* an entity with n equivalent identifiers and m types
EntityOfSize(n, m) ==
    [identifier |-> "A:1", label |-> "a",
     equivalent_identifiers |-> [i \in 1..n |-> Entry("A:1", "a")],
     types |-> [i \in 1..m |-> "biolink:NamedThing"],
     source_databases |-> {}, confidence_score |-> None]

\* the base weights confidence_based_merge passes: primekg_weight, 1 - primekg_weight
BaseWeights == PrimekgWeights \cup {1000 - w : w \in PrimekgWeights}

ScoreInit ==
    /\ scoring = <<>>
    /\ pc = None
    /\ MergeIdle
    /\ MappingIdle
    /\ BatchIdle
    /\ ValidateIdle
    /\ CompendiaIdle

CalculateConfidence ==
    \E n \in 0..MaxScoredEquiv, m \in 0..MaxScoredTypes,
       source_db \in {"PrimeKG", "SemMed"}, weight \in BaseWeights :
        /\ scoring' = [entity |-> EntityOfSize(n, m), source_db |-> source_db,
                       weight |-> weight,
                       score |-> calculate_confidence(EntityOfSize(n, m), source_db, weight)]
        /\ UNCHANGED <<pc, mergeVars, mappingVars, batchVars, validateVars, compendiaVars>>

ScoreNext == CalculateConfidence

ScoreSpec == ScoreInit /\ [][ScoreNext]_vars

\* ------------------------------------------------------ identifier mapping
\* scripts/id_mapping.py (map_to_curie_with_source) and
\* unmerged_simulation_subset/normalize_datasets.py (map_primekg_to_curie).
\* A Python string is the sequence of its characters, so that strip, split,
\* upper and the f-strings act on the characters.
MaxLocal == 2

\* str.upper() on the ASCII letters
UpperOf ==
    ("a" :> "A") @@ ("b" :> "B") @@ ("c" :> "C") @@ ("d" :> "D") @@ ("e" :> "E") @@ ("f" :> "F") @@
    ("g" :> "G") @@ ("h" :> "H") @@ ("i" :> "I") @@ ("j" :> "J") @@ ("k" :> "K") @@ ("l" :> "L") @@
    ("m" :> "M") @@ ("n" :> "N") @@ ("o" :> "O") @@ ("p" :> "P") @@ ("q" :> "Q") @@ ("r" :> "R") @@
    ("s" :> "S") @@ ("t" :> "T") @@ ("u" :> "U") @@ ("v" :> "V") @@ ("w" :> "W") @@ ("x" :> "X") @@
    ("y" :> "Y") @@ ("z" :> "Z")

Letters == DOMAIN UpperOf \cup {UpperOf[c] : c \in DOMAIN UpperOf}

Whitespace == {" ", "\t", "\n"}

upper(s) == [i \in 1..Len(s) |-> IF s[i] \in DOMAIN UpperOf THEN UpperOf[s[i]] ELSE s[i]]

\* str.strip(): without the leading and the trailing whitespace
strip(s) ==
    LET inked == {i \in 1..Len(s) : s[i] \notin Whitespace}
    IN  IF inked = {} THEN <<>>
        ELSE SubSeq(s, CHOOSE i \in inked : \A j \in inked : i <= j,
                       CHOOSE i \in inked : \A j \in inked : j <= i)

\* ":" in node_id, and the two parts of node_id.split(":", 1)
HasColon(s) == \E i \in 1..Len(s) : s[i] = ":"

FirstColon(s) == CHOOSE i \in 1..Len(s) : s[i] = ":" /\ \A j \in 1..(i - 1) : s[j] # ":"

PrefixOf(s) == SubSeq(s, 1, FirstColon(s) - 1)

SuffixOf(s) == SubSeq(s, FirstColon(s) + 1, Len(s))

\* Optional[str]: None is the one-element sequence of a token that is no character
Unmapped == <<None>>

valid_prefixes ==
    {<<"N", "C", "B", "I", "G", "e", "n", "e">>,
     <<"D", "R", "U", "G", "B", "A", "N", "K">>,
     <<"C", "H", "E", "M", "B", "L", ".", "C", "O", "M", "P", "O", "U", "N", "D">>,
     <<"P", "U", "B", "C", "H", "E", "M", ".", "C", "O", "M", "P", "O", "U", "N", "D">>,
     <<"G", "O">>,
     <<"U", "B", "E", "R", "O", "N">>,
     <<"R", "E", "A", "C", "T", "O", "M", "E">>,
     <<"M", "O", "N", "D", "O">>,
     <<"U", "M", "L", "S">>,
     <<"H", "P">>,
     <<"M", "E", "S", "H">>,
     <<"O", "M", "I", "M">>,
     <<"D", "O", "I", "D">>,
     <<"S", "N", "O", "M", "E", "D", "C", "T">>,
     <<"N", "C", "I", "T">>,
     <<"H", "G", "N", "C">>,
     <<"U", "N", "I", "P", "R", "O", "T">>,
     <<"C", "T", "D">>}

source_to_prefix ==
    (<<"N", "C", "B", "I">> :> <<"N", "C", "B", "I", "G", "e", "n", "e">>) @@
    (<<"D", "r", "u", "g", "B", "a", "n", "k">> :> <<"D", "R", "U", "G", "B", "A", "N", "K">>) @@
    (<<"G", "O">> :> <<"G", "O">>) @@
    (<<"U", "B", "E", "R", "O", "N">> :> <<"U", "B", "E", "R", "O", "N">>) @@
    (<<"R", "E", "A", "C", "T", "O", "M", "E">> :> <<"R", "E", "A", "C", "T", "O", "M", "E">>) @@
    (<<"M", "O", "N", "D", "O">> :> <<"M", "O", "N", "D", "O">>) @@
    (<<"M", "O", "N", "D", "O", "_", "g", "r", "o", "u", "p", "e", "d">> :> <<"M", "O", "N", "D", "O">>) @@
    (<<"H", "P", "O">> :> <<"H", "P">>) @@
    (<<"C", "T", "D">> :> <<"C", "T", "D">>)

\* mutant of map_to_curie_with_source: rule 2 takes the identifier as read
map_to_curie_with_source_raw(raw_id, raw_source) ==
    LET id == strip(raw_id)
        source == strip(raw_source)
    IN  IF HasColon(id) /\ upper(PrefixOf(id)) \in valid_prefixes
        THEN upper(id)
        ELSE IF source \in DOMAIN source_to_prefix
        THEN source_to_prefix[source] \o <<":">> \o raw_id
        ELSE Unmapped

map_to_curie_with_source(raw_id, raw_source) ==
    LET id == strip(raw_id)
        source == strip(raw_source)
    IN  IF HasColon(id) /\ upper(PrefixOf(id)) \in valid_prefixes
        THEN upper(id)
        ELSE IF source \in DOMAIN source_to_prefix
        THEN source_to_prefix[source] \o <<":">> \o id
        ELSE Unmapped

gene_protein == <<"g", "e", "n", "e", "/", "p", "r", "o", "t", "e", "i", "n">>

disease == <<"d", "i", "s", "e", "a", "s", "e">>

drug == <<"d", "r", "u", "g">>

anatomy == <<"a", "n", "a", "t", "o", "m", "y">>

map_primekg_to_curie(raw_id, raw_type) ==
    LET id == strip(raw_id)
        type == strip(raw_type)
    IN  IF type = gene_protein THEN <<"N", "C", "B", "I", "G", "e", "n", "e", ":">> \o id
        ELSE IF type = disease THEN <<"M", "O", "N", "D", "O", ":">> \o id
        ELSE IF type = drug THEN <<"C", "H", "E", "B", "I", ":">> \o id
        ELSE Unmapped

\* the rows: an identifier is a local part, or a namespace, ":" and a local
\* part, with or without a blank on either side
Namespaces ==
    {<<"D", "R", "U", "G", "B", "A", "N", "K">>, <<"N", "C", "B", "I", "G", "e", "n", "e">>, <<"G", "O">>, <<"g", "o">>, <<"M", "e", "s", "h">>, <<"X", "Y">>}

LocalChars == {"1", "d", ":"}

Locals == SeqsUpTo(LocalChars, 0, MaxLocal)

Pads == {<<>>, <<" ">>}

Padded(S) == {l \o s \o r : l \in Pads, r \in Pads, s \in S}

NodeIds == Padded(Locals \cup {n \o <<":">> \o l : n \in Namespaces, l \in Locals})

NodeSources == Padded({<<"N", "C", "B", "I">>, <<"D", "r", "u", "g", "B", "a", "n", "k">>, <<"P", "r", "i", "m", "e", "K", "G">>}) \cup {<<>>}

NodeTypes == {gene_protein, disease, drug, anatomy, <<" ">> \o drug}

MappingInit ==
    /\ node_id \in NodeIds
    /\ node_type \in NodeTypes
    /\ node_source \in NodeSources
    /\ curie = <<>>
    /\ pc = "row"
    /\ MergeIdle
    /\ scoring = <<>>
    /\ BatchIdle
    /\ ValidateIdle
    /\ CompendiaIdle

\* the value the function returned for the row
Mapped(name, result) ==
    /\ pc = "row"
    /\ pc' = name
    /\ curie' = result
    /\ UNCHANGED <<node_id, node_type, node_source, mergeVars, scoring, batchVars,
                   validateVars, compendiaVars>>

MapToCurieWithSource ==
    Mapped("map_to_curie_with_source", map_to_curie_with_source(node_id, node_source))

MapPrimekgToCurie ==
    Mapped("map_primekg_to_curie", map_primekg_to_curie(node_id, node_type))

MappingNext == MapToCurieWithSource \/ MapPrimekgToCurie

MappingSpec == MappingInit /\ [][MappingNext]_vars

\* ------------------------------------------------- batched normalization
\* scripts/id_mapping.py (normalize_via_api) and scripts/batch_normalize.py
\* (batch_normalize_curies): the same loop in both.
MaxCuries == 3
MaxBatch == 2

\* what the service answers for a CURIE: a normalized record, or null
Answers == {"normalized", None}

\* curies[i:i + batch_size]
BatchAt(i) == SubSeq(curies, i + 1, Min(i + batch_size, Len(curies)))

Post(batch, ok) == [op |-> "post", batch |-> batch, ok |-> ok]

\* a request that succeeded, with the r.json() it returned
Answered(batch, response) ==
    [op |-> "post", batch |-> batch, ok |-> TRUE, response |-> response]

Sleep == [op |-> "sleep"]

BatchInit ==
    /\ curies \in SeqsUpTo(EqIds, 0, MaxCuries)
    /\ batch_size \in 1..MaxBatch
    /\ batch_start = 0
    /\ results = <<>>
    /\ calls = <<>>
    /\ pc = "batching"
    /\ MergeIdle
    /\ scoring = <<>>
    /\ MappingIdle
    /\ ValidateIdle
    /\ CompendiaIdle

\* the next value of range(0, len(curies), batch_size)
NextBatch ==
    /\ batch_start' = batch_start + batch_size
    /\ UNCHANGED <<pc, curies, batch_size, mergeVars, scoring, mappingVars, validateVars, compendiaVars>>

\* the request succeeds: results.update(r.json()), then time.sleep(0.1)
BatchSucceeds ==
    /\ pc = "batching"
    /\ batch_start < Len(curies)
    /\ \E response \in [Range(BatchAt(batch_start)) -> Answers] :
           /\ results' = response @@ results
           /\ calls' = calls \o <<Answered(BatchAt(batch_start), response), Sleep>>
    /\ NextBatch

\* mutant of BatchFails: the exception leaves the loop
BatchFails_abort ==
    /\ pc = "batching"
    /\ batch_start < Len(curies)
    /\ pc' = "raised"
    /\ calls' = calls \o <<Post(BatchAt(batch_start), FALSE)>>
    /\ UNCHANGED <<curies, batch_size, batch_start, results, mergeVars, scoring,
                   mappingVars, validateVars, compendiaVars>>

\* requests.post or raise_for_status raises a RequestException: a null entry
\* for every CURIE of the batch
BatchFails ==
    /\ pc = "batching"
    /\ batch_start < Len(curies)
    /\ results' = [c \in Range(BatchAt(batch_start)) |-> None] @@ results
    /\ calls' = calls \o <<Post(BatchAt(batch_start), FALSE)>>
    /\ NextBatch

\* the range is exhausted: return results
ReturnResults ==
    /\ pc = "batching"
    /\ batch_start >= Len(curies)
    /\ pc' = "returned"
    /\ UNCHANGED <<batchVars, mergeVars, scoring, mappingVars, validateVars, compendiaVars>>

BatchNext == BatchSucceeds \/ BatchFails \/ ReturnResults

BatchSpec == BatchInit /\ [][BatchNext]_vars

\* the loop is sequential and every request ends (timeout=60, timeout=30), so
\* it keeps taking steps while one is possible
BatchFairSpec == BatchSpec /\ WF_vars(BatchNext)

\* ------------------------------------------------- the validation script
\* scripts/validate_combined_data.py
\* the map is what json.load returned: a value that is not an object is a
\* record with the field json (null, or a string and its value)
Null == [json |-> "null"]

Str(v) == [json |-> "string", value |-> v]

\* isinstance(v, dict)
IsDict(v) == "json" \notin DOMAIN v

\* key in v, where v is an object or a string: on a string it is a substring
\* test, false for the field names and the strings of the model
HasKey(v, key) == IsDict(v) /\ key \in DOMAIN v

\* the concatenation, in the order of data.items(), of a list per entity
RECURSIVE Concat(_, _)
Concat(g, n) ==
    IF n = 0 THEN <<>>
    ELSE Concat(g, n - 1) \o (IF KeyOrder[n] \in DOMAIN g THEN g[KeyOrder[n]] ELSE <<>>)

required_fields == <<"id", "equivalent_identifiers", "type", "source_databases">>

biolink == <<"b", "i", "o", "l", "i", "n", "k", ":">>

\* the issues validate_data_integrity appends for one entity
IntegrityIssues(entity_id, entity_data) ==
    LET Absent(field) == field \notin DOMAIN entity_data
        missing == SelectSeq(required_fields, Absent)
        equivs == entity_data.equivalent_identifiers
        BadEntry(i) == \/ ~IsDict(equivs[i])
                       \/ "identifier" \notin DOMAIN equivs[i]
                       \/ "label" \notin DOMAIN equivs[i]
        bad == SelectSeq([i \in 1..Len(equivs) |-> i], BadEntry)
        Invalid(type_val) == ~IsPrefix(biolink, Chars(type_val))
        invalid == SelectSeq(entity_data.type, Invalid)
    IN  [n \in 1..Len(missing) |->
            [kind |-> "missing required field", entity |-> entity_id, field |-> missing[n]]]
        \o (IF /\ "id" \in DOMAIN entity_data
               /\ \/ ~HasKey(entity_data.id, "identifier")
                  \/ ~HasKey(entity_data.id, "label")
            THEN <<[kind |-> "malformed id field", entity |-> entity_id]>>
            ELSE <<>>)
        \o (IF "equivalent_identifiers" \in DOMAIN entity_data
            THEN [n \in 1..Len(bad) |->
                     [kind |-> "malformed equivalent_identifier", entity |-> entity_id,
                      index |-> bad[n] - 1]]
            ELSE <<>>)
        \o (IF "type" \in DOMAIN entity_data
            THEN [n \in 1..Len(invalid) |->
                     [kind |-> "invalid type", entity |-> entity_id, type_val |-> invalid[n]]]
            ELSE <<>>)

\* field not in entity_data raises TypeError when the record is null
validate_data_integrity_raises(M) == \E k \in DOMAIN M : M[k] = Null

validate_data_integrity(M) == Concat([k \in DOMAIN M |-> IntegrityIssues(k, M[k])], Len(KeyOrder))

\* the issues check_identifier_consistency appends for one entity
ConsistencyIssues(entity_id, entity_data) ==
    (IF /\ "id" \in DOMAIN entity_data
        /\ HasKey(entity_data.id, "identifier")
        /\ entity_id # entity_data.id.identifier
     THEN <<[kind |-> "key doesn't match id.identifier", entity |-> entity_id]>>
     ELSE <<>>)
    \o (IF /\ "equivalent_identifiers" \in DOMAIN entity_data
           /\ entity_id \notin {entity_data.equivalent_identifiers[i].identifier :
                                   i \in 1..Len(entity_data.equivalent_identifiers)}
        THEN <<[kind |-> "not found in its own equivalent_identifiers",
                entity |-> entity_id]>>
        ELSE <<>>)

\* eq['identifier'] raises KeyError on an entry without the key and TypeError
\* on an entry that is a string; 'id' in entity_data raises on a null record
check_identifier_consistency_raises(M) ==
    \E k \in DOMAIN M :
        \/ M[k] = Null
        \/ /\ "equivalent_identifiers" \in DOMAIN M[k]
           /\ \E i \in 1..Len(M[k].equivalent_identifiers) :
                  ~HasKey(M[k].equivalent_identifiers[i], "identifier")

check_identifier_consistency(M) ==
    Concat([k \in DOMAIN M |-> ConsistencyIssues(k, M[k])], Len(KeyOrder))

\* len(type_counts): the distinct types of the entities that have both fields
analyze_type_distribution(M) ==
    [total_types |->
        Cardinality(UNION {Range(M[k].type) :
            k \in {e \in DOMAIN M : "type" \in DOMAIN M[e] /\ "source_databases" \in DOMAIN M[e]}})]

\* overlap_analysis: entities with one source and with several
analyze_source_overlap(M) ==
    LET tagged == {k \in DOMAIN M : "source_databases" \in DOMAIN M[k]}
    IN  [single_source |-> Cardinality({k \in tagged : Len(M[k].source_databases) = 1}),
         multi_source |-> Cardinality({k \in tagged : Len(M[k].source_databases) # 1})]

\* the (identifier, entity key) pairs check_duplicate_identifiers appends, in
\* order: for each entity the main identifier, then its equivalent identifiers
Claimed(entity_id, entity_data) ==
    (IF "id" \in DOMAIN entity_data /\ HasKey(entity_data.id, "identifier")
     THEN <<[identifier |-> entity_data.id.identifier, entity |-> entity_id]>>
     ELSE <<>>)
    \o (IF "equivalent_identifiers" \in DOMAIN entity_data
        THEN LET equivs == entity_data.equivalent_identifiers
                 Has(i) == HasKey(equivs[i], "identifier")
                 with == SelectSeq([i \in 1..Len(equivs) |-> i], Has)
             IN  [n \in 1..Len(with) |->
                     [identifier |-> equivs[with[n]].identifier, entity |-> entity_id]]
        ELSE <<>>)

Appended(M) == Concat([k \in DOMAIN M |-> Claimed(k, M[k])], Len(KeyOrder))

\* identifier_to_entities[x]: a list, one entry per append
EntitiesOf(occ, x) ==
    LET Is(o) == o.identifier = x
        sel == SelectSeq(occ, Is)
    IN  [n \in 1..Len(sel) |-> sel[n].entity]

\* 'id' in entity_data raises TypeError when the record is null
check_duplicate_identifiers_raises(M) == \E k \in DOMAIN M : M[k] = Null

\* one issue per identifier whose list has more than one entry, in the order
\* the identifiers were first seen
check_duplicate_identifiers(M) ==
    LET occ == Appended(M)
        Reported(j) ==
            /\ \A m \in 1..(j - 1) : occ[m].identifier # occ[j].identifier
            /\ Len(EntitiesOf(occ, occ[j].identifier)) > 1
        chosen == SelectSeq([j \in 1..Len(occ) |-> j], Reported)
    IN  [n \in 1..Len(chosen) |->
            [identifier |-> occ[chosen[n]].identifier,
             entities |-> EntitiesOf(occ, occ[chosen[n]].identifier)]]

\* the validators run in this order and nothing catches what they raise
generate_quality_report_raises(M) ==
    \/ validate_data_integrity_raises(M)
    \/ check_identifier_consistency_raises(M)
    \/ check_duplicate_identifiers_raises(M)

generate_quality_report(M) ==
    [total_entities |-> Cardinality(DOMAIN M),
     validation_issues |-> validate_data_integrity(M) \o check_identifier_consistency(M),
     type_analysis |-> analyze_type_distribution(M),
     source_analysis |-> analyze_source_overlap(M),
     duplicate_issues |-> check_duplicate_identifiers(M)]

\* records of a combined file that is not what the merge wrote: an empty type
\* list, types without the biolink: prefix, a null record, an id that is a
\* string, and entries of equivalent_identifiers that lack a key or are strings
Anomalous(k, lab) ==
    LET sound == [id |-> Entry(k, lab), equivalent_identifiers |-> <<Entry(k, lab)>>,
                  type |-> <<"biolink:Gene">>, source_databases |-> <<"PrimeKG">>]
    IN  {Null, sound, [sound EXCEPT !.id = Str(k)]}
        \cup {[sound EXCEPT !.type = ty] :
                 ty \in {<<>>, <<"Gene">>, <<"biolink:Gene", "Gene">>, <<"biolink:Cell">>}}
        \cup {[sound EXCEPT !.equivalent_identifiers = eq] :
                 eq \in {<<Entry(k, lab), [label |-> lab]>>, <<Entry(k, lab), Str(k)>>,
                         <<[identifier |-> k]>>, <<[label |-> lab], Entry(k, lab)>>}}

LoadedMaps(lab) ==
    Maps(lab) \cup {("A:1" :> r) @@ y : r \in Anomalous("A:1", lab),
                                        y \in {<<>>, ("B:2" :> PlainRecord("B:2", lab))}}

ValidateInit ==
    /\ data \in LoadedMaps("c")
    /\ issues = <<>>
    /\ report = <<>>
    /\ pc = "loaded"
    /\ MergeIdle
    /\ scoring = <<>>
    /\ MappingIdle
    /\ BatchIdle
    /\ CompendiaIdle

\* a validator called on the loaded map: it returns its issues or raises
Validated(name, raises, out) ==
    /\ pc = "loaded"
    /\ pc' = IF raises THEN "raised" ELSE name
    /\ issues' = IF raises THEN issues ELSE out
    /\ UNCHANGED <<data, report, mergeVars, scoring, mappingVars, batchVars, compendiaVars>>

ValidateDataIntegrity ==
    Validated("validate_data_integrity", validate_data_integrity_raises(data),
              validate_data_integrity(data))

CheckIdentifierConsistency ==
    Validated("check_identifier_consistency", check_identifier_consistency_raises(data),
              check_identifier_consistency(data))

CheckDuplicateIdentifiers ==
    Validated("check_duplicate_identifiers", check_duplicate_identifiers_raises(data),
              check_duplicate_identifiers(data))

GenerateQualityReport ==
    /\ pc = "loaded"
    /\ pc' = IF generate_quality_report_raises(data) THEN "raised" ELSE "generate_quality_report"
    /\ report' = IF generate_quality_report_raises(data) THEN report
                 ELSE generate_quality_report(data)
    /\ UNCHANGED <<data, issues, mergeVars, scoring, mappingVars, batchVars, compendiaVars>>

ValidateNext ==
    \/ ValidateDataIntegrity
    \/ CheckIdentifierConsistency
    \/ CheckDuplicateIdentifiers
    \/ GenerateQualityReport

ValidateSpec == ValidateInit /\ [][ValidateNext]_vars

\* ------------------------------------------------- the type-priority merge
\* type_based_merge on two records of one identifier whose types are ranked
\* tags, tags that extend a ranked tag, tags without a rank and strings
\* without the biolink: prefix
MaxRanked == 2

RankedPool ==
    {"biolink:Gene", "biolink:GeneFamily", "biolink:Disease", "biolink:NamedThing",
     "biolink:Cell", "Gene"}

RankedLists == {t \in SeqsUpTo(RankedPool, 0, MaxRanked) : NoDup(t)}

Typed(k, lab) ==
    {("A:1" :> [id |-> Entry(k, lab), equivalent_identifiers |-> <<Entry(k, lab)>>,
                type |-> ty]) : ty \in RankedLists}

TypeInit ==
    /\ primekg_data \in Typed("A:1", "p")
    /\ semmed_data \in Typed("A:1", "s")
    /\ same_object = FALSE
    /\ pc = "loaded"
    /\ strategy = None
    /\ combined = <<>>
    /\ primekg_weight = None
    /\ stats = <<>>
    /\ Aside

TypeNext == TypeBasedMerge

TypeSpec == TypeInit /\ [][TypeNext]_vars

\* ------------------------------------------------- compendia records
\* scripts/id_mapping.py (build_compendia_records)
MaxRows == 6

\* len(unmapped_examples[node_type]) < 5
ExamplesCap == 5

\* limit_per_type: Optional[int], None is the empty tuple
NoLimit == <<>>

Limits == {NoLimit, <<0>>, <<1>>, <<2>>}

Digits == <<"1", "2", "3", "4", "5", "6", "7", "8", "9">>

\* the rows of a nodes table: the identifier of a row is its line number, its
\* source tag is one the table of sources has or one it does not have
RowSources == {<<"N", "C", "B", "I">>, <<"X", "Y">>}

RowTypes == {drug, disease}

RowTables ==
    UNION {{[i \in 1..n |-> [node_id |-> <<Digits[i]>>, node_type |-> ty[i],
                             node_name |-> <<"n">>, node_source |-> src[i]]] :
               ty \in [1..n -> RowTypes], src \in [1..n -> RowSources]} : n \in 0..MaxRows}

type_to_biolink ==
    (gene_protein :> "biolink:Gene") @@ (drug :> "biolink:ChemicalEntity")
    @@ (anatomy :> "biolink:AnatomicalEntity") @@ (disease :> "biolink:Disease")

\* a defaultdict read: the default where the key is absent
Get(d, key, default) == IF key \in DOMAIN d THEN d[key] ELSE default

Put(d, key, value) == (key :> value) @@ d

\* the row the loop is at
Row == rows[row_index + 1]

\* included_per_type[node_type] >= limit_per_type, when a limit is set
LimitReached ==
    limit_per_type # NoLimit /\ Get(included_per_type, Row.node_type, 0) >= limit_per_type[1]

\* not curie: None or the empty string
Falsy(c) == c = Unmapped \/ c = <<>>

CompendiaInit ==
    /\ rows \in RowTables
    /\ limit_per_type \in Limits
    /\ row_index = 0
    /\ records = <<>>
    /\ counts = <<>>
    /\ included_per_type = <<>>
    /\ unmapped_examples = <<>>
    /\ pc = "rows"
    /\ MergeIdle
    /\ scoring = <<>>
    /\ MappingIdle
    /\ BatchIdle
    /\ ValidateIdle

NextRow ==
    /\ pc = "rows"
    /\ row_index < Len(rows)
    /\ row_index' = row_index + 1
    /\ UNCHANGED <<pc, rows, limit_per_type, mergeVars, scoring, mappingVars, batchVars,
                   validateVars>>

\* the per-type limit is reached: continue, before the row is classified
SkipRow ==
    /\ NextRow
    /\ LimitReached
    /\ UNCHANGED <<records, counts, included_per_type, unmapped_examples>>

\* the row has no CURIE: it is counted and kept as an example while the list
\* of its type has fewer than five
UnmappedRow ==
    /\ NextRow
    /\ ~LimitReached
    /\ Falsy(map_to_curie_with_source(Row.node_id, Row.node_source))
    /\ counts' = Put(counts, Row.node_type, Get(counts, Row.node_type, 0) + 1)
    /\ unmapped_examples' =
           Put(unmapped_examples, Row.node_type,
               IF Len(Get(unmapped_examples, Row.node_type, <<>>)) < ExamplesCap
               THEN Append(Get(unmapped_examples, Row.node_type, <<>>),
                           [node_id |-> Row.node_id, node_name |-> Row.node_name,
                            node_source |-> Row.node_source])
               ELSE Get(unmapped_examples, Row.node_type, <<>>))
    /\ UNCHANGED <<records, included_per_type>>

\* the row has a CURIE: it is counted, written out and counted as included
IncludeRow ==
    /\ NextRow
    /\ ~LimitReached
    /\ ~Falsy(map_to_curie_with_source(Row.node_id, Row.node_source))
    /\ counts' = Put(counts, Row.node_type, Get(counts, Row.node_type, 0) + 1)
    /\ records' = Append(records, [type |-> Get(type_to_biolink, Row.node_type, "biolink:NamedThing"),
                           identifiers |->
                                   <<[i |-> map_to_curie_with_source(Row.node_id,
                                                                     Row.node_source),
                                      l |-> Row.node_name]>>])
    /\ included_per_type' =
           Put(included_per_type, Row.node_type, Get(included_per_type, Row.node_type, 0) + 1)
    /\ UNCHANGED unmapped_examples

ReturnRecords ==
    /\ pc = "rows"
    /\ row_index >= Len(rows)
    /\ pc' = "build_compendia_records"
    /\ UNCHANGED <<compendiaVars, mergeVars, scoring, mappingVars, batchVars, validateVars>>

CompendiaNext == SkipRow \/ UnmappedRow \/ IncludeRow \/ ReturnRecords

CompendiaSpec == CompendiaInit /\ [][CompendiaNext]_vars

\* ------------------------------------------------------------ properties
\* a step in which the named merge was called on the loaded maps and returned
Returned(name) == pc = "loaded" /\ pc' = "merged" /\ strategy' = name

\* the three union merges: DatabaseCombiner.union_merge and the two copies of
\* simple_union_merge
UnionMerges == {"union", "simple_combine", "simple_explore"}

\* content of an output entity (NormalizedEntity for the four strategies, a
\* plain record for simple_union_merge)
Sources(name, e) ==
    IF name \in Strategies THEN e.source_databases ELSE Range(e.source_databases)

TypesOf(name, e) == IF name \in Strategies THEN Range(e.types) ELSE Range(e.type)

Carries(r) == "source_databases" \in DOMAIN r

Common == DOMAIN primekg_data \cap DOMAIN semmed_data

\* every record of both inputs has the required fields
AllWellFormed ==
    /\ \A k \in DOMAIN primekg_data : CanCreate(primekg_data[k])
    /\ \A k \in DOMAIN semmed_data : CanCreate(semmed_data[k])

\* C1: the number of entities union_merge returns equals |A| + |B| minus the
\* number intersection_merge returns on the same inputs.
SizeLaw ==
    [][Returned("union") =>
          \A ord \in TypeOrders :
              LET both == intersection_merge(primekg_data, semmed_data, ord)
              IN  /\ ~both.raised
                  /\ Cardinality(DOMAIN combined') =
                        Cardinality(DOMAIN primekg_data) + Cardinality(DOMAIN semmed_data)
                        - Cardinality(DOMAIN both.combined)]_vars

SizeLawWitness ==
    /\ pc = "merged" /\ strategy = "union"
    /\ Common # {}
    /\ DOMAIN primekg_data # DOMAIN semmed_data
    /\ Cardinality(DOMAIN combined) = 2

\* the sourceDatabases an input record stands for: the list it carries, or the
\* name it is loaded under as the left-hand input
OriginalSources(r) == IF Carries(r) THEN Range(r.source_databases) ELSE {"PrimeKG"}

SelfUnion(name) == name \in UnionMerges /\ Returned(name) /\ semmed_data = primekg_data

\* C2 as stated: union-merging a map with itself yields the same keys and, per
\* entity, the same sourceDatabases content, the same types content and no new
\* identifiers.
SelfUnionIdempotent ==
    [][\A name \in UnionMerges :
          SelfUnion(name) /\ AllWellFormed =>
              /\ DOMAIN combined' = DOMAIN primekg_data
              /\ \A k \in DOMAIN primekg_data :
                    /\ Sources(name, combined'[k]) = OriginalSources(primekg_data[k])
                    /\ TypesOf(name, combined'[k]) = Range(primekg_data[k].type)
                    /\ IdSet(combined'[k].equivalent_identifiers)
                          = IdSet(primekg_data[k].equivalent_identifiers)]_vars

\* C2 amended: union-merging a map with itself yields the same keys and, per
\* entity, the same types content and the same equivalent identifiers (none
\* added); sourceDatabases is not preserved: it is {PrimeKG, SemMed}, or, where
\* simple_combine.py keeps the list the record carries, that list with SemMed
\* appended.
SelfUnionKeepsContent ==
    [][\A name \in UnionMerges :
          SelfUnion(name) =>
              /\ DOMAIN combined' = DOMAIN primekg_data
              /\ \A k \in DOMAIN primekg_data :
                    /\ TypesOf(name, combined'[k]) = Range(primekg_data[k].type)
                    /\ combined'[k].equivalent_identifiers
                          = primekg_data[k].equivalent_identifiers
                    /\ IF name = "simple_combine" /\ Carries(primekg_data[k])
                       THEN combined'[k].source_databases
                               = Append(primekg_data[k].source_databases, "SemMed")
                       ELSE Sources(name, combined'[k]) = {"PrimeKG", "SemMed"}]_vars

SelfUnionWitness ==
    /\ pc = "merged" /\ strategy \in UnionMerges
    /\ DOMAIN primekg_data = Keys /\ DOMAIN semmed_data = Keys
    /\ Len(combined["A:1"].equivalent_identifiers) = 2
    /\ \A k \in Keys :
          /\ CanCreate(primekg_data[k]) /\ CanCreate(semmed_data[k])
          /\ primekg_data[k].id = semmed_data[k].id
          /\ primekg_data[k].type = semmed_data[k].type
          /\ primekg_data[k].equivalent_identifiers = semmed_data[k].equivalent_identifiers
          /\ Sources(strategy, combined[k]) # OriginalSources(primekg_data[k])

\* C3: a merge never mutates its input maps.
InputsNeverMutated ==
    [][pc = "loaded" /\ AllWellFormed =>
          primekg_data' = primekg_data /\ semmed_data' = semmed_data]_vars

SelfMember(M) ==
    \A k \in DOMAIN M :
        CanCreate(M[k]) /\ M[k].id.identifier \in IdSet(M[k].equivalent_identifiers)

\* C4: after any of the four strategies every output entity's
\* equivalentIdentifiers contains the entity's own identifier, provided every
\* entity of both inputs had that property.
SelfMembershipPreserved ==
    [][\A name \in Strategies :
          Returned(name) /\ SelfMember(primekg_data) /\ SelfMember(semmed_data) =>
              \A k \in DOMAIN combined' :
                  combined'[k].identifier \in IdSet(combined'[k].equivalent_identifiers)]_vars

SelfMembershipWitness ==
    /\ pc = "merged" /\ strategy = "confidence"
    /\ SelfMember(primekg_data) /\ SelfMember(semmed_data)
    /\ \E k \in Common :
          /\ combined[k].label = "s"
          /\ Len(combined[k].equivalent_identifiers) = 2
          /\ Len(primekg_data[k].equivalent_identifiers) = 1

\* C5: intersection_merge returns exactly the identifiers present in both
\* inputs, and every surviving entity's sourceDatabases contains both names.
IntersectionExact ==
    pc = "merged" /\ strategy = "intersection" =>
        /\ DOMAIN combined = Common
        /\ \A k \in DOMAIN combined : {"PrimeKG", "SemMed"} \subseteq combined[k].source_databases

IntersectionWitness ==
    /\ pc = "merged" /\ strategy = "intersection"
    /\ DOMAIN combined = {"A:1"}
    /\ DOMAIN primekg_data = Keys

\* the source names the left-hand entity enters the collision with
LeftNames(name, r) ==
    IF name = "simple_combine" /\ Carries(r) THEN Range(r.source_databases) ELSE {"PrimeKG"}

\* C6: when an identifier exists in both inputs of a union merge, the output
\* types is the set union of both sides' types and the output sourceDatabases
\* is the set union of both sides' source names.
UnionMergesTypesAndSources ==
    [][\A name \in UnionMerges :
          Returned(name) =>
              \A k \in Common :
                  /\ TypesOf(name, combined'[k])
                        = Range(primekg_data[k].type) \cup Range(semmed_data[k].type)
                  /\ Sources(name, combined'[k])
                        = LeftNames(name, primekg_data[k]) \cup {"SemMed"}]_vars

UnionTypesWitness ==
    /\ pc = "merged" /\ strategy = "union"
    /\ \E k \in Common :
          /\ primekg_data[k].type = <<"biolink:Gene">>
          /\ semmed_data[k].type = <<"biolink:NamedThing">>
          /\ Range(combined[k].types) = {"biolink:Gene", "biolink:NamedThing"}
          /\ combined[k].source_databases = {"PrimeKG", "SemMed"}

\* the entries of right whose identifier is not in ids, in right-hand order
RECURSIVE NewEntries(_, _)
NewEntries(right, ids) ==
    IF right = <<>> THEN <<>>
    ELSE (IF Head(right).identifier \in ids THEN <<>> ELSE <<Head(right)>>)
         \o NewEntries(Tail(right), ids)

\* C7: when an identifier exists in both inputs of a union merge, the output
\* equivalentIdentifiers is the left-hand list in its order followed by the
\* right-hand entries whose identifier is not in the left-hand list, in
\* right-hand order.
UnionExtendsEquivalents ==
    [][\A name \in UnionMerges :
          Returned(name) =>
              \A k \in Common :
                  combined'[k].equivalent_identifiers
                     = primekg_data[k].equivalent_identifiers
                       \o NewEntries(semmed_data[k].equivalent_identifiers,
                                     IdSet(primekg_data[k].equivalent_identifiers))]_vars

UnionEquivalentsWitness ==
    /\ pc = "merged" /\ strategy = "union"
    /\ \E k \in Common :
          /\ IdsOf(semmed_data[k].equivalent_identifiers) = <<"C:3", "A:1">>
          /\ IdsOf(combined[k].equivalent_identifiers) = <<"A:1", "B:2", "C:3">>

\* C8: the union, confidence-based and type-priority strategies delete no
\* entity: the output key set is keys(A) \cup keys(B).
NoEntityDeleted ==
    pc = "merged" /\ strategy \in {"union", "confidence", "type"} =>
        DOMAIN combined = DOMAIN primekg_data \cup DOMAIN semmed_data

NoEntityDeletedWitness ==
    /\ pc = "merged" /\ strategy = "type"
    /\ DOMAIN primekg_data = {"A:1"}
    /\ DOMAIN semmed_data = {"B:2"}
    /\ DOMAIN combined = Keys

\* C9: every output entity's sourceDatabases is a superset of the
\* source_databases that entity carried in the inputs.
SourcesOnlyGrow ==
    [][\A name \in Strategies \cup UnionMerges :
          Returned(name) =>
              \A k \in DOMAIN combined' :
                  /\ k \in DOMAIN primekg_data /\ Carries(primekg_data[k]) =>
                        Range(primekg_data[k].source_databases)
                           \subseteq Sources(name, combined'[k])
                  /\ k \in DOMAIN semmed_data /\ Carries(semmed_data[k]) =>
                        Range(semmed_data[k].source_databases)
                           \subseteq Sources(name, combined'[k])]_vars

WellFormedKeys(M) == {k \in DOMAIN M : CanCreate(M[k])}

\* C10: a record that lacks a required field does not abort the merge: the
\* merge returns, the record is excluded and the well-formed records are
\* merged.
MalformedRecordExcluded ==
    [][pc = "loaded" /\ pc' # "loaded" =>
          /\ pc' = "merged"
          /\ DOMAIN combined' =
                IF strategy' = "intersection"
                THEN WellFormedKeys(primekg_data) \cap WellFormedKeys(semmed_data)
                ELSE WellFormedKeys(primekg_data) \cup WellFormedKeys(semmed_data)]_vars

\* ------------------------------------------------ confidence and type scores
\* the base weight each side is scored with (primekg_weight and 1 - primekg_weight)
BaseWeight(source_db, w) == IF source_db = "PrimeKG" THEN w ELSE 1000 - w

\* the score the formula gives a record: base weight plus the three bonuses,
\* brought into [0,1]
ClampedScore(r, source_db, w) ==
    LET sum == BaseWeight(source_db, w)
               + Min(200, 50 * Len(r.equivalent_identifiers))
               + Min(100, 10 * Len(r.type))
               + (IF source_db = "PrimeKG" THEN 100 ELSE 50)
    IN  Max({0, Min(1000, sum)})

\* the records an output entity of key k can have been scored from
ScoredFrom(k) ==
    (IF k \in DOMAIN primekg_data THEN {<<primekg_data[k], "PrimeKG">>} ELSE {})
    \cup (IF k \in DOMAIN semmed_data THEN {<<semmed_data[k], "SemMed">>} ELSE {})

\* C11: every score a confidence merge assigns is the base weight plus the
\* equivalent-identifier, type and source bonuses clamped to [0,1], so it lies
\* in [0,1] whatever weight was configured.
ConfidenceScoreClamped ==
    [][Returned("confidence") =>
          \A k \in DOMAIN combined' :
              /\ combined'[k].confidence_score \in 0..1000
              /\ \E c \in ScoredFrom(k) :
                     combined'[k].confidence_score = ClampedScore(c[1], c[2], primekg_weight')]_vars

\* two calls in a row that differ at most in the equivalent identifiers
SameButEquivalents ==
    /\ scoring # <<>>
    /\ scoring'.source_db = scoring.source_db
    /\ scoring'.weight = scoring.weight
    /\ scoring'.entity.types = scoring.entity.types

\* C12: with source, weight and types fixed, an entity with more equivalent
\* identifiers never gets a lower score than the entity with fewer.
ConfidenceMonotone ==
    [][(/\ SameButEquivalents
        /\ Len(scoring'.entity.equivalent_identifiers)
               >= Len(scoring.entity.equivalent_identifiers))
       => scoring'.score >= scoring.score]_vars

\* an entity with more identifiers than the bonus counts was scored, below the
\* upper clamp
ConfidenceMonotoneWitness ==
    /\ scoring # <<>>
    /\ Len(scoring.entity.equivalent_identifiers) = MaxScoredEquiv
    /\ Len(scoring.entity.types) = MaxScoredTypes
    /\ scoring.score = scoring.weight + 200 + 100 + 50
    /\ scoring.score < 1000

\* the two entities of a collision on key k, as the confidence merge scores them
LeftScored(k) == Scored(primekg_data[k], "PrimeKG", primekg_weight')

RightScored(k) == Scored(semmed_data[k], "SemMed", 1000 - primekg_weight')

\* C13: on a collision of the confidence merge the right-hand entity replaces
\* the left-hand one iff its score is strictly higher, and then carries the
\* sources of both sides; otherwise the left-hand entity is kept with its own
\* label and score, with the right-hand types and the right-hand equivalent
\* identifiers it did not have.
ConfidenceCollisionPolicy ==
    [][Returned("confidence") =>
          \A k \in Common :
              LET left == LeftScored(k)
                  right == RightScored(k)
                  out == combined'[k]
              IN  IF right.confidence_score > left.confidence_score
                  THEN /\ out = [right EXCEPT !.source_databases = out.source_databases]
                       /\ out.source_databases
                              = left.source_databases \cup right.source_databases
                  ELSE /\ out.label = left.label
                       /\ out.confidence_score = left.confidence_score
                       /\ Range(out.types) = Range(left.types) \cup Range(right.types)
                       /\ out.equivalent_identifiers
                              = left.equivalent_identifiers
                                \o NewEntries(right.equivalent_identifiers,
                                              IdSet(left.equivalent_identifiers))]_vars

\* a collision with equal scores (0.525 + 0.01 + 0.1 against 0.475 + 0.1 +
\* 0.01 + 0.05): the left-hand entity was kept and took the two right-hand
\* identifiers and the right-hand type
ConfidenceTieWitness ==
    /\ pc = "merged"
    /\ strategy = "confidence"
    /\ primekg_weight = 525
    /\ ~same_object
    /\ "A:1" \in DOMAIN combined
    /\ "A:1" \in DOMAIN semmed_data
    /\ Len(semmed_data["A:1"].equivalent_identifiers) = 2
    /\ semmed_data["A:1"].equivalent_identifiers[1].label = "s"
    /\ combined["A:1"].label = "p"
    /\ combined["A:1"].confidence_score = 635
    /\ IdsOf(combined["A:1"].equivalent_identifiers)
           = IdsOf(semmed_data["A:1"].equivalent_identifiers)
    /\ Range(combined["A:1"].types) = TypePool

\* C14: when the two entities of a collision of the type-priority merge have
\* different priorities, the output entity is the one with the higher
\* priority, whichever side supplied it, and its sources are both names.
TypePriorityWins ==
    [][Returned("type") =>
          \A k \in Common :
              LET left == create_entity_from_normalized(primekg_data[k], "PrimeKG")
                  right == create_entity_from_normalized(semmed_data[k], "SemMed")
                  winner == IF get_type_priority(right.types) > get_type_priority(left.types)
                            THEN right ELSE left
                  out == combined'[k]
              IN  get_type_priority(left.types) # get_type_priority(right.types)
                  => /\ out.identifier = winner.identifier
                     /\ out.label = winner.label
                     /\ out.equivalent_identifiers = winner.equivalent_identifiers
                     /\ out.types = winner.types
                     /\ out.source_databases = {"PrimeKG", "SemMed"}]_vars

\* a biolink:Gene entity of the right-hand input won over a biolink:NamedThing
\* entity of the left-hand input
TypePriorityWitness ==
    /\ pc = "merged"
    /\ strategy = "type"
    /\ "A:1" \in Common
    /\ primekg_data["A:1"].type = <<"biolink:NamedThing">>
    /\ semmed_data["A:1"].type = <<"biolink:Gene">>
    /\ combined["A:1"].label = "s"
    /\ combined["A:1"].types = <<"biolink:Gene">>
    /\ combined["A:1"].source_databases = {"PrimeKG", "SemMed"}

\* the strategies that leave confidence_score unset
Unscored == {"union", "intersection"}

\* C15: after any of the four merge strategies every output entity's
\* confidence score is unset or lies in [0,1].
ScoresInUnitRange ==
    (pc = "merged" /\ strategy \in Strategies) =>
        \A k \in DOMAIN combined :
            IF strategy \in Unscored
            THEN combined[k].confidence_score = None
            ELSE combined[k].confidence_score \in 0..1000

\* ------------------------------------------------------- identifier mapping
\* a mapping function returned for the row
WasMapped == pc \in {"map_to_curie_with_source", "map_primekg_to_curie"}

\* the string matches ^[A-Za-z.]+:.+$
MatchesCurie(s) ==
    \E i \in 2..(Len(s) - 1) :
        /\ s[i] = ":"
        /\ \A j \in 1..(i - 1) : s[j] \in Letters \cup {"."}
        /\ \A j \in (i + 1)..Len(s) : s[j] # "\n"

Blank(s) == \A i \in 1..Len(s) : s[i] \in Whitespace

\* C16: for every identifier string and every source tag the mapping returns
\* Unmapped or a CURIE matching ^[A-Za-z.]+:.+$, and an empty or
\* whitespace-only identifier yields Unmapped.
ClassifierTotal ==
    WasMapped =>
        /\ curie = Unmapped \/ MatchesCurie(curie)
        /\ Blank(node_id) => curie = Unmapped

\* the identifier has a namespace that is, whatever its case, one of the
\* recognized prefixes
Recognized(id) ==
    HasColon(id) /\ upper(PrefixOf(id)) \in {upper(v) : v \in valid_prefixes}

\* C17: an identifier whose namespace is, compared case-insensitively, a
\* recognized prefix is returned with the namespace in upper case and the part
\* after the separator unchanged, whatever the source tag is.
AlreadyCurieWins ==
    (pc = "map_to_curie_with_source" /\ Recognized(strip(node_id))) =>
        curie = upper(PrefixOf(strip(node_id))) \o <<":">> \o SuffixOf(strip(node_id))

\* the result of rule 2 for an identifier and a source tag
SourceTable(id, source) ==
    IF source \in DOMAIN source_to_prefix
    THEN source_to_prefix[source] \o <<":">> \o id
    ELSE Unmapped

\* C18 as stated: when rule 1 does not match, the result is the namespace of
\* the source tag, ":" and the raw identifier if the source tag is in the
\* table, and Unmapped if it is not.
SourceTableRuleRaw ==
    (pc = "map_to_curie_with_source" /\ ~Recognized(node_id)) =>
        curie = SourceTable(node_id, node_source)

\* C18: when rule 1 does not match the identifier, the result is the namespace
\* of the source tag, ":" and the identifier if the source tag is in the table,
\* and Unmapped if it is not, the identifier and the source tag both taken
\* without their leading and trailing whitespace.
SourceTableRule ==
    (pc = "map_to_curie_with_source" /\ ~Recognized(strip(node_id))) =>
        curie = SourceTable(strip(node_id), strip(node_source))

\* the row " 1 " of source " NCBI" was mapped to NCBIGene:1
SourceTableWitness ==
    /\ pc = "map_to_curie_with_source"
    /\ node_id = <<" ", "1", " ">>
    /\ node_source = <<" ", "N", "C", "B", "I">>
    /\ curie = <<"N", "C", "B", "I", "G", "e", "n", "e", ":", "1">>

\* ---------------------------------------------------- batched normalization
\* the batches of the list, in order
NumBatches == (Len(curies) + batch_size - 1) \div batch_size

Batches == [n \in 1..NumBatches |-> BatchAt((n - 1) * batch_size)]

\* the batches posted so far, in order
IsPost(call) == call.op = "post"

Posted == LET posts == SelectSeq(calls, IsPost) IN [n \in 1..Len(posts) |-> posts[n].batch]

\* the step is a request of the current batch that failed
BatchFailed ==
    pc = "batching" /\ calls' = calls \o <<Post(BatchAt(batch_start), FALSE)>>

\* C19: a failed batch does not abort the run: each of its CURIEs is recorded
\* as null and the loop goes on to the next batch, the call returns, and when it
\* has returned every batch of the list has been sent.
FailedBatchDoesNotAbort ==
    /\ [][BatchFailed =>
              /\ pc' = "batching"
              /\ batch_start' = batch_start + batch_size
              /\ \A c \in Range(BatchAt(batch_start)) :
                     c \in DOMAIN results' /\ results'[c] = None]_vars
    /\ [](pc = "returned" => Posted = Batches)
    /\ <>(pc = "returned")

\* the call returned after a failed first batch and a successful later one;
\* the CURIEs of the failed batch are null in the result
FailedBatchWitness ==
    /\ pc = "returned"
    /\ Len(Posted) >= 2
    /\ ~calls[1].ok
    /\ \E n \in 2..Len(calls) : IsPost(calls[n]) /\ calls[n].ok
    /\ \A c \in Range(calls[1].batch) : results[c] = None
    /\ \E c \in DOMAIN results : results[c] # None

\* ---------------------------------------------------- duplicate identifiers
\* entity k of the map claims identifier x, as its main identifier or as one of
\* its equivalent identifiers
Claims(k, x) ==
    \E n \in 1..Len(Claimed(k, data[k])) : Claimed(k, data[k])[n].identifier = x

\* C20: the duplicate check reports an identifier if and only if more than one
\* distinct entity key claims it; an identifier that one entity alone claims,
\* as main identifier and as equivalent identifier, is not reported.
DuplicatesAcrossEntities ==
    pc = "check_duplicate_identifiers" =>
        {issues[n].identifier : n \in 1..Len(issues)}
            = {x \in EqIds : Cardinality({k \in DOMAIN data : Claims(k, x)}) > 1}

\* the types of entity k are not a non-empty list of biolink:-prefixed strings
BadTypes(k) ==
    \/ "type" \notin DOMAIN data[k]
    \/ data[k].type = <<>>
    \/ \E i \in 1..Len(data[k].type) : ~IsPrefix(biolink, Chars(data[k].type[i]))

\* an issue of the list is about the types of entity k
TypeIssue(list, k) ==
    \E n \in 1..Len(list) :
        /\ list[n].entity = k
        /\ \/ list[n].kind = "invalid type"
           \/ list[n].kind = "missing required field" /\ list[n].field = "type"

\* C21: when validate_data_integrity has returned, every entity whose types
\* are not a non-empty list of biolink:-prefixed strings (an empty type list
\* included) has an issue about its types in the returned list.
BadTypesReported ==
    pc = "validate_data_integrity" =>
        \A k \in DOMAIN data : BadTypes(k) => TypeIssue(issues, k)

\* the anomalies of entity k: an id that is not an object with both keys, and
\* entries of equivalent_identifiers that are not objects with both keys
IdAnomaly(k) ==
    /\ HasKey(data[k], "id")
    /\ ~(HasKey(data[k].id, "identifier") /\ HasKey(data[k].id, "label"))

EntryAnomalies(k) ==
    IF HasKey(data[k], "equivalent_identifiers")
    THEN {i \in 1..Len(data[k].equivalent_identifiers) :
             ~(/\ HasKey(data[k].equivalent_identifiers[i], "identifier")
               /\ HasKey(data[k].equivalent_identifiers[i], "label"))}
    ELSE {}

HasIssue(list, issue) == \E n \in 1..Len(list) : list[n] = issue

\* every anomaly of the loaded map is among the validation issues of the report
AnomaliesReported(rep) ==
    \A k \in DOMAIN data :
        /\ data[k] = Null => \E n \in 1..Len(rep.validation_issues) :
                                 rep.validation_issues[n].entity = k
        /\ IdAnomaly(k) =>
               HasIssue(rep.validation_issues, [kind |-> "malformed id field", entity |-> k])
        /\ \A i \in EntryAnomalies(k) :
               HasIssue(rep.validation_issues,
                        [kind |-> "malformed equivalent_identifier", entity |-> k,
                         index |-> i - 1])

\* C22: a call of generate_quality_report on the loaded map returns (it does
\* not raise), every anomaly of the map (a null record, an id that is not an
\* object, an entry of equivalent_identifiers that lacks a key or is not an
\* object) is among the validation issues of the report, and the report holds
\* the findings of both validators and of the duplicate check.
QualityReportNeverRaises ==
    [][GenerateQualityReport =>
          /\ pc' = "generate_quality_report"
          /\ AnomaliesReported(report')
          /\ report'.validation_issues
                 = validate_data_integrity(data) \o check_identifier_consistency(data)
          /\ report'.duplicate_issues = check_duplicate_identifiers(data)]_vars

\* the rows of a node type that classify to Unmapped, in input order, as the
\* examples the function keeps of them
UnmappedOfType(t) ==
    LET Is(r) == r.node_type = t /\ Falsy(map_to_curie_with_source(r.node_id, r.node_source))
        sel == SelectSeq(rows, Is)
    IN  [n \in 1..Len(sel) |-> [node_id |-> sel[n].node_id, node_name |-> sel[n].node_name,
                                node_source |-> sel[n].node_source]]

\* C23: when build_compendia_records has returned, for every node type and
\* whatever limit_per_type was, unmapped_examples of the type is the first
\* min(5, n) of the n rows of that type that classify to Unmapped, in input
\* order and each with its id, name and source tag (so never more than 5).
UnmappedExamplesKept ==
    pc = "build_compendia_records" =>
        \A t \in RowTypes :
            Get(unmapped_examples, t, <<>>)
                = SubSeq(UnmappedOfType(t), 1, Min(ExamplesCap, Len(UnmappedOfType(t))))

\* every record of an input map lists pairwise distinct identifiers
DistinctInput(M) ==
    \A k \in DOMAIN M :
        "equivalent_identifiers" \in DOMAIN M[k] => NoDup(IdsOf(M[k].equivalent_identifiers))

\* C24: whatever merge ran, if the equivalent-identifier list of every input
\* record has pairwise distinct identifiers, then the equivalent-identifier
\* list of every entity of the returned map has pairwise distinct identifiers.
OutputEquivalentsDistinct ==
    [][pc = "loaded" /\ pc' = "merged"
       /\ DistinctInput(primekg_data) /\ DistinctInput(semmed_data)
       => \A k \in DOMAIN combined' :
              "equivalent_identifiers" \in DOMAIN combined'[k]
                  => NoDup(IdsOf(combined'[k].equivalent_identifiers))]_vars

\* a merge folded a right-hand record that repeats an identifier of the
\* left-hand record and adds a new one
OutputEquivalentsWitness ==
    /\ pc = "merged"
    /\ \E k \in Common :
          /\ IdSet(primekg_data[k].equivalent_identifiers)
                 \cap IdSet(semmed_data[k].equivalent_identifiers) # {}
          /\ Len(combined[k].equivalent_identifiers)
                 > Len(primekg_data[k].equivalent_identifiers)
          /\ NoDup(IdsOf(combined[k].equivalent_identifiers))

\* the largest rank among the ranked tags that some type of the list starts
\* with, 0 when no type starts with a ranked tag
PriorityOf(types) ==
    LET matched == {m \in DOMAIN type_hierarchy :
                       \E i \in 1..Len(types) : IsPrefix(Chars(m), Chars(types[i]))}
    IN  IF matched = {} THEN 0
        ELSE CHOOSE p \in {type_hierarchy[m] : m \in matched} :
                 \A m \in matched : type_hierarchy[m] <= p

\* C25: in the type-priority merge the score of an output entity is the
\* largest rank over its own types, a type matching a ranked tag by prefix and
\* an entity without a ranked type scoring 0; when the two entities of an
\* identifier have equal priority the output is the left-hand (PrimeKG) entity.
TypePriorityAndTie ==
    [][Returned("type") =>
          \A k \in Common :
              LET out == combined'[k]
              IN  /\ out.confidence_score = 1000 * PriorityOf(out.types)
                  /\ PriorityOf(primekg_data[k].type) = PriorityOf(semmed_data[k].type)
                     => /\ out.label = primekg_data[k].id.label
                        /\ out.types = primekg_data[k].type
                        /\ out.equivalent_identifiers = primekg_data[k].equivalent_identifiers]_vars

\* a left-hand entity ranked through a tag that extends biolink:Gene tied with
\* a right-hand biolink:Gene entity and was kept
TypeTieWitness ==
    /\ pc = "merged"
    /\ strategy = "type"
    /\ primekg_data["A:1"].type = <<"biolink:Cell", "biolink:GeneFamily">>
    /\ semmed_data["A:1"].type = <<"biolink:Gene">>
    /\ combined["A:1"].label = "p"
    /\ combined["A:1"].confidence_score = 10000

\* C26: between any two consecutive batch requests there is an inter-batch
\* delay, whether the earlier request succeeded or failed: in the order of the
\* calls made, a request is never directly followed by another request.
RequestsArePaced ==
    \A n \in 1..(Len(calls) - 1) : IsPost(calls[n]) => ~IsPost(calls[n + 1])

\* the requests made, in order
Posts == SelectSeq(calls, IsPost)

Contains(post, c) == c \in Range(post.batch)

\* C30: when the loop has returned, a CURIE maps to null in the result only
\* if every batch that contained it failed, or the service itself answered
\* null for it in a batch that succeeded: a result is never lost to a failure.
ResultsNeverLost ==
    pc = "returned" =>
        \A c \in DOMAIN results :
            results[c] = None =>
                \/ \A n \in 1..Len(Posts) : Contains(Posts[n], c) => ~Posts[n].ok
                \/ \E n \in 1..Len(Posts) :
                       Contains(Posts[n], c) /\ Posts[n].ok /\ Posts[n].response[c] = None

\* a confidence merge of the loaded maps that returns, having scored the
\* left-hand records with base weight l and the right-hand records with base
\* weight r
MergedWithWeights(l, r) ==
    /\ ConfidenceBasedMerge
    /\ pc' = "merged"
    /\ \A k \in DOMAIN primekg_data \ DOMAIN semmed_data :
           combined'[k] = Scored(primekg_data[k], "PrimeKG", l)
    /\ \A k \in DOMAIN semmed_data \ DOMAIN primekg_data :
           combined'[k] = Scored(semmed_data[k], "SemMed", r)

\* C27: the base weights of the confidence merge can be set per source,
\* independently of each other and without summing to 1: on well-formed maps
\* with an entity only on the left and an entity only on the right, for every
\* pair of weights the option takes there is a confidence merge that scores
\* the left-hand entity with the first and the right-hand entity with the second.
BaseWeightsIndependent ==
    (/\ pc = "loaded"
     /\ AllWellFormed
     /\ DOMAIN primekg_data \ DOMAIN semmed_data # {}
     /\ DOMAIN semmed_data \ DOMAIN primekg_data # {})
    => \A l, r \in PrimekgWeights : ENABLED MergedWithWeights(l, r)

\* the count of a source in entities_by_source, an absent source counting 0
BySource(statistics, src) ==
    IF src \in DOMAIN statistics.entities_by_source
    THEN statistics.entities_by_source[src] ELSE 0

\* C28: generate_statistics on the map union_merge returned for A and B
\* reports |keys(A) \cup keys(B)| entities, |A| PrimeKG entities, |B| SemMed
\* entities (0 for a source that is absent) and |keys(A) \cap keys(B)|
\* entities with several sources, and leaves the merged map as it was.
UnionStatistics ==
    [][(pc = "merged" /\ strategy = "union" /\ pc' = "statistics") =>
          /\ stats'.total_entities = Cardinality(DOMAIN primekg_data \cup DOMAIN semmed_data)
          /\ BySource(stats', "PrimeKG") = Cardinality(DOMAIN primekg_data)
          /\ BySource(stats', "SemMed") = Cardinality(DOMAIN semmed_data)
          /\ stats'.entities_with_multiple_sources = Cardinality(Common)
          /\ combined' = combined]_vars

\* the statistics of a union of two maps that share one of their keys and of
\* which the left one has a key of its own
UnionStatisticsWitness ==
    /\ pc = "statistics"
    /\ strategy = "union"
    /\ DOMAIN primekg_data = {"A:1", "B:2"}
    /\ DOMAIN semmed_data = {"B:2"}
    /\ stats.total_entities = 2
    /\ stats.entities_by_source = ("PrimeKG" :> 2) @@ ("SemMed" :> 1)
    /\ stats.entities_with_multiple_sources = 1

\* no record of either input carries a source_databases field
NoSourceField ==
    /\ \A k \in DOMAIN primekg_data : ~Carries(primekg_data[k])
    /\ \A k \in DOMAIN semmed_data : ~Carries(semmed_data[k])

\* the record r of a simple merge and the entity e of union_merge have the
\* same label, types, equivalent identifiers and sources, no source twice
SameEntity(r, e) ==
    /\ r.id.label = e.label
    /\ Range(r.type) = Range(e.types)
    /\ r.equivalent_identifiers = e.equivalent_identifiers
    /\ Range(r.source_databases) = e.source_databases
    /\ NoDup(r.source_databases)

\* C29: on inputs without source_databases fields, what either copy of
\* simple_union_merge returns agrees with what union_merge returns for the
\* same inputs: the same keys and, for every key, the same label, set of
\* types, equivalent-identifier list and set of source names, none repeated.
SimpleAgreesWithUnion ==
    [][(pc = "loaded" /\ pc' = "merged" /\ strategy' \in {"simple_combine", "simple_explore"}
        /\ NoSourceField)
       => \A ord \in TypeOrders :
              LET union == union_merge(primekg_data, semmed_data, ord)
              IN  /\ ~union.raised
                  /\ DOMAIN union.combined = DOMAIN combined'
                  /\ \A k \in DOMAIN combined' : SameEntity(combined'[k], union.combined[k])]_vars

====
